---------------------------- MODULE Spec2Model ----------------------------
(***************************************************************************)
(* Live weather index of atools: the file change monitor                   *)
(* (util/filesystemwatcher.cpp), the X-Plane weather reader                *)
(* (fs/weather/xpweatherreader.cpp) and the file system they observe.      *)
(*                                                                         *)
(* Everything runs on one Qt event loop: every handler below is one        *)
(* atomic action.  Time is discrete; a timer holds the number of ticks     *)
(* left until it expires, -1 when it is stopped.  An expired timer is      *)
(* dispatched before time advances, but handlers that are due at the same  *)
(* instant (a native notification, the other timer) run in any order.      *)
(***************************************************************************)
EXTENDS Integers, Sequences, FiniteSets, TLC

(***************************************************************************)
(* Bounds of the model and scaled program constants                        *)
(***************************************************************************)
\* how many external events one behaviour has: calls of the application and
\* operations of the environment on the file system
MaxExternal == 3
\* modification times the environment may give a file: 1..MaxMtime
MaxMtime == 2
\* lines of a file read by the reader alone
MaxLines == 4
\* station lines of a file loaded to be queried
MaxStations == 3

\* delayMs, in ticks (delayTimer.start(delayMs))
DelayMs == 2
\* checkMs, in ticks (periodicCheckTimer.start(checkMs))
CheckMs == 3
\* minFileSize, in characters (fileinfo.size() > minFileSize)
MinFileSize == 8

Paths == {"wx", "alt"}
LivePath == "wx"
NoPath == ""

(***************************************************************************)
(* Text: a line is a sequence of one-character strings                     *)
(***************************************************************************)
DigitChars == <<"0", "1", "2", "3", "4", "5", "6", "7", "8", "9">>
UpperChars == {"A", "B", "C", "D", "E", "F", "G", "H", "I", "J", "K", "L", "M",
               "N", "O", "P", "Q", "R", "S", "T", "U", "V", "W", "X", "Y", "Z"}
SpaceChars == {" ", "\t"}

IsDigit(c) == \E i \in 1..10 : DigitChars[i] = c
DigitVal(c) == (CHOOSE i \in 1..10 : DigitChars[i] = c) - 1

\* QString::trimmed(): whitespace removed from both ends
RECURSIVE TrimLeft(_)
TrimLeft(s) == IF s # <<>> /\ Head(s) \in SpaceChars THEN TrimLeft(Tail(s)) ELSE s
RECURSIVE TrimRight(_)
TrimRight(s) ==
  IF s # <<>> /\ s[Len(s)] \in SpaceChars THEN TrimRight(SubSeq(s, 1, Len(s) - 1)) ELSE s
Trimmed(s) == TrimRight(TrimLeft(s))

\* QString::section(' ', 0, 0): the text before the first blank
RECURSIVE FirstSection(_)
FirstSection(s) ==
  IF s = <<>> \/ Head(s) = " " THEN <<>> ELSE <<Head(s)>> \o FirstSection(Tail(s))

\* IDENT_REGEXP "^[A-Z0-9]{2,5}$"
IdentMatch(s) ==
  /\ Len(s) >= 2
  /\ Len(s) <= 5
  /\ \A i \in 1..Len(s) : s[i] \in UpperChars \/ IsDigit(s[i])

\* DATE_REGEXP "^[\d]{4}/[\d]{2}/[\d]{2}": a prefix match
DateMatch(s) ==
  /\ Len(s) >= 10
  /\ \A i \in {1, 2, 3, 4, 6, 7, 9, 10} : IsDigit(s[i])
  /\ s[5] = "/"
  /\ s[8] = "/"

(***************************************************************************)
(* Timestamps.  A QDateTime is [valid, t] with t = <<y, M, d, h, m>>; the  *)
(* default constructed (unset) QDateTime compares like the start of the    *)
(* epoch.                                                                  *)
(***************************************************************************)
UnsetTime == [valid |-> FALSE, t |-> <<1970, 1, 1, 0, 0>>]

Num2(s, i) == DigitVal(s[i]) * 10 + DigitVal(s[i + 1])
Num4(s, i) == Num2(s, i) * 100 + Num2(s, i + 2)

IsLeap(y) == (y % 4 = 0 /\ y % 100 # 0) \/ y % 400 = 0
DaysInMonth(y, m) ==
  IF m = 2 THEN (IF IsLeap(y) THEN 29 ELSE 28)
  ELSE IF m \in {4, 6, 9, 11} THEN 30 ELSE 31

\* QDateTime::fromString(line, "yyyy/MM/dd hh:mm"): the whole text has to
\* be of that form and name an existing date and time, else the result is unset
DateFromString(s) ==
  IF /\ Len(s) = 16
     /\ \A i \in {1, 2, 3, 4, 6, 7, 9, 10, 12, 13, 15, 16} : IsDigit(s[i])
     /\ s[5] = "/" /\ s[8] = "/" /\ s[11] = " " /\ s[14] = ":"
     /\ Num4(s, 1) >= 1
     /\ Num2(s, 6) \in 1..12
     /\ Num2(s, 9) \in 1..DaysInMonth(Num4(s, 1), Num2(s, 6))
     /\ Num2(s, 12) \in 0..23
     /\ Num2(s, 15) \in 0..59
  THEN [valid |-> TRUE,
        t |-> <<Num4(s, 1), Num2(s, 6), Num2(s, 9), Num2(s, 12), Num2(s, 15)>>]
  ELSE UnsetTime

RECURSIVE LexGreater(_, _)
LexGreater(a, b) ==
  IF a = <<>> THEN FALSE
  ELSE IF Head(a) # Head(b) THEN Head(a) > Head(b)
  ELSE LexGreater(Tail(a), Tail(b))

\* QDateTime operator>
TimeGreater(a, b) == LexGreater(a.t, b.t)


(***************************************************************************)
(* The file system.  A path holds nothing, a directory or a regular file;  *)
(* a file has a modification time, a content (an entry of Contents) and    *)
(* may be unreadable for this process.                                     *)
(***************************************************************************)
DateA == <<"2","0","1","7","/","0","7","/","3","0"," ","1","8",":","4","5">>
DateB == <<"2","0","1","7","/","0","7","/","3","0"," ","1","8",":","5","5">>
ObsKHYI == <<"K","H","Y","I"," ","7","K","T">>
ObsKHYI2 == <<"K","H","Y","I"," ","3","K","T">>
ObsKPRO == <<"K","P","R","O"," ","3","K","T">>
ObsZZ == <<"Z","Z"," ","1">>

\* the files the environment writes while the service runs
Contents == <<
  <<DateA, ObsKHYI>>,
  <<DateB, ObsKHYI2>>,
  <<DateA, ObsKHYI, <<>>, DateB, ObsKPRO>>,
  <<ObsZZ>> >>

NoFile == [kind |-> "absent", mtime |-> 0, content |-> <<>>, readable |-> TRUE]
Directory == [kind |-> "dir", mtime |-> 0, content |-> <<>>, readable |-> TRUE]
RegularFile(c, m, r) == [kind |-> "file", mtime |-> m, content |-> c, readable |-> r]

RECURSIVE TextSize(_)
TextSize(lines) ==
  IF lines = <<>> THEN 0 ELSE Len(Head(lines)) + 1 + TextSize(Tail(lines))

\* QFileInfo::size()
FileSize(f) == TextSize(f.content)
\* QFileInfo::exists() && QFileInfo::isFile()
IsRegularFile(f) == f.kind = "file"
\* QFile::open(ReadOnly)
CanOpen(f) == f.kind = "file" /\ f.readable

(***************************************************************************)
(* Positions and the coordinate lookup of the caller                       *)
(***************************************************************************)
InvalidPos == [valid |-> FALSE, lonx |-> 0, laty |-> 0]
ValidPos(lonx, laty) == [valid |-> TRUE, lonx |-> lonx, laty |-> laty]

\* fetchAirportCoords: the stations the caller's database knows
AirportCoords(ident) ==
  IF ident = <<"K","H","Y","I">> THEN ValidPos(-98, 30)
  ELSE IF ident = <<"K","P","R","O">> THEN ValidPos(-94, 42)
  ELSE IF ident = <<"K","A">> THEN ValidPos(-80, 35)
  ELSE InvalidPos

(***************************************************************************)
(* The station index: identifier -> [data, pos]                            *)
(***************************************************************************)
EmptyIndex == <<>>
IndexContains(idx, key) == key \in DOMAIN idx
IndexInsert(idx, key, data, pos) ==
  [k \in DOMAIN idx \cup {key} |->
     IF k = key THEN [data |-> data, pos |-> pos] ELSE idx[k]]
MetarData(ident, metar, timestamp) ==
  [ident |-> ident, metar |-> metar, timestamp |-> timestamp]
\* index.value(key): a default constructed MetarData when the key is absent
IndexValue(idx, key) ==
  IF key \in DOMAIN idx THEN idx[key].data ELSE MetarData(<<>>, <<>>, UnsetTime)

(***************************************************************************)
(* Queries.  Positions are in whole degrees; the distance of two positions *)
(* is kept as a number that grows with their great-circle distance: 10^9   *)
(* times (1 - cosine of the angle between them), with the sine taken from  *)
(* Bhaskara's rational approximation.                                      *)
(***************************************************************************)
\* 1000 * sin(d degrees)
Sin1000(d) ==
  LET x == d % 360
      y == IF x <= 180 THEN x ELSE x - 180
      s == (4000 * y * (180 - y)) \div (40500 - y * (180 - y))
  IN IF x <= 180 THEN s ELSE 0 - s
\* 1000 * cos(d degrees)
Cos1000(d) == Sin1000(d + 90)

\* Pos::distanceMeterTo, up to a growing function
Distance(a, b) ==
  1000000000 - (Sin1000(a.laty) * Sin1000(b.laty) * 1000
                + Cos1000(a.laty) * Cos1000(b.laty) * Cos1000(a.lonx - b.lonx))

\* a lookup that returns the entry that is farthest away
GetTypeOrFarthest(idx, key, pos) ==
  IF key \in DOMAIN idx THEN [key |-> key, data |-> idx[key].data]
  ELSE IF DOMAIN idx = {} THEN [key |-> <<>>, data |-> MetarData(<<>>, <<>>, UnsetTime)]
  ELSE LET far == CHOOSE k \in DOMAIN idx :
                    \A m \in DOMAIN idx :
                      Distance(idx[k].pos, pos) >= Distance(idx[m].pos, pos)
       IN [key |-> far, data |-> idx[far].data]

\* index.getTypeOrNearest(data, key, pos): the entry of key when there is one,
\* else the entry nearest to pos, else (empty index) no key
GetTypeOrNearest(idx, key, pos) ==
  IF key \in DOMAIN idx THEN [key |-> key, data |-> idx[key].data]
  ELSE IF DOMAIN idx = {} THEN [key |-> <<>>, data |-> MetarData(<<>>, <<>>, UnsetTime)]
  ELSE LET near == CHOOSE k \in DOMAIN idx :
                     \A m \in DOMAIN idx :
                       Distance(idx[k].pos, pos) <= Distance(idx[m].pos, pos)
       IN [key |-> near, data |-> idx[near].data]

\* a query that reports every match as a station nearby
getXplaneMetarAsNearest(idx, station, pos) ==
  LET found == GetTypeOrNearest(idx, station, pos)
  IN [requestIdent |-> station,
      requestPos |-> pos,
      metarForStation |-> <<>>,
      metarForNearest |-> IF found.key # <<>> THEN found.data.metar ELSE <<>>]

\* a query that fills both texts
getXplaneMetarBoth(idx, station, pos) ==
  LET found == GetTypeOrNearest(idx, station, pos)
  IN [requestIdent |-> station,
      requestPos |-> pos,
      metarForStation |-> IF found.key # <<>> THEN found.data.metar ELSE <<>>,
      metarForNearest |-> IF found.key # <<>> THEN found.data.metar ELSE <<>>]

\* XpWeatherReader::getXplaneMetar(station, pos), without the time of the query
getXplaneMetar(idx, station, pos) ==
  LET found == GetTypeOrNearest(idx, station, pos)
  IN [requestIdent |-> station,
      requestPos |-> pos,
      metarForStation |-> IF found.key # <<>> /\ found.key = station
                          THEN found.data.metar ELSE <<>>,
      metarForNearest |-> IF found.key # <<>> /\ found.key # station
                          THEN found.data.metar ELSE <<>>]

(***************************************************************************)
(* XpWeatherReader::read(), the loop over the lines of the file            *)
(***************************************************************************)
\* a comparison that never skips a line
NeverNewer(md, lastTimestamp) == FALSE

\* a comparison that skips a line also when the loaded entry is as old
AlreadyNewerOrEqual(md, lastTimestamp) ==
  TimeGreater(md.timestamp, lastTimestamp) \/ ~TimeGreater(lastTimestamp, md.timestamp)

\* the timestamp comparison that skips a line: the loaded entry is newer
AlreadyNewer(md, lastTimestamp) == TimeGreater(md.timestamp, lastTimestamp)

\* a pass of the loop that stores the line whatever the position is
ReadLineStoresAll(st, raw) ==
  LET line == Trimmed(raw)
      ident == FirstSection(line)
      pos == AirportCoords(ident)
      next == [st EXCEPT !.lineNum = @ + 1]
  IN IF line = <<>> THEN st
     ELSE IF Len(line) < 4 THEN next
     ELSE IF DateMatch(line) THEN [st EXCEPT !.lastTimestamp = DateFromString(line)]
     ELSE IF ~IdentMatch(ident) THEN [next EXCEPT !.warned = Append(@, st.lineNum)]
     ELSE IF /\ IndexContains(st.index, ident)
             /\ AlreadyNewer(IndexValue(st.index, ident), st.lastTimestamp)
          THEN st
     ELSE [next EXCEPT
             !.index = IndexInsert(@, ident, MetarData(ident, line, st.lastTimestamp), pos)]

\* a pass of the loop that takes a line of any length
ReadLineAnyLength(st, raw) ==
  LET line == Trimmed(raw)
      ident == FirstSection(line)
      pos == AirportCoords(ident)
      next == [st EXCEPT !.lineNum = @ + 1]
  IN IF line = <<>> THEN st
     ELSE IF DateMatch(line) THEN [st EXCEPT !.lastTimestamp = DateFromString(line)]
     ELSE IF ~IdentMatch(ident) THEN [next EXCEPT !.warned = Append(@, st.lineNum)]
     ELSE IF /\ IndexContains(st.index, ident)
             /\ AlreadyNewer(IndexValue(st.index, ident), st.lastTimestamp)
          THEN st
     ELSE IF pos.valid
          THEN [next EXCEPT
                  !.index = IndexInsert(@, ident, MetarData(ident, line, st.lastTimestamp), pos)]
     ELSE next

\* one pass of the while loop; st = [index, lastTimestamp, lineNum, warned]
ReadLine(st, raw) ==
  LET line == Trimmed(raw)
      ident == FirstSection(line)
      pos == AirportCoords(ident)
      next == [st EXCEPT !.lineNum = @ + 1]
  IN IF line = <<>> THEN st
     ELSE IF Len(line) < 4 THEN next
     ELSE IF DateMatch(line) THEN [st EXCEPT !.lastTimestamp = DateFromString(line)]
     ELSE IF ~IdentMatch(ident) THEN [next EXCEPT !.warned = Append(@, st.lineNum)]
     ELSE IF /\ IndexContains(st.index, ident)
             /\ AlreadyNewer(IndexValue(st.index, ident), st.lastTimestamp)
          THEN st
     ELSE IF pos.valid
          THEN [next EXCEPT
                  !.index = IndexInsert(@, ident, MetarData(ident, line, st.lastTimestamp), pos)]
     ELSE next

RECURSIVE ReadLines(_, _)
ReadLines(st, lines) ==
  IF lines = <<>> THEN st ELSE ReadLines(ReadLine(st, Head(lines)), Tail(lines))

\* a read() that clears the index before it opens the file
ReadClearsFirst(idx, f, upto) ==
  IF CanOpen(f)
  THEN LET st == ReadLines([index |-> EmptyIndex, lastTimestamp |-> UnsetTime,
                            lineNum |-> 1, warned |-> <<>>],
                           SubSeq(f.content, 1, upto))
       IN [ok |-> TRUE, index |-> st.index, warned |-> st.warned]
  ELSE [ok |-> FALSE, index |-> EmptyIndex, warned |-> <<>>]

\* a read() that keeps the entries loaded before and adds those of the file
ReadKeepsOld(idx, f, upto) ==
  IF CanOpen(f)
  THEN LET st == ReadLines([index |-> idx, lastTimestamp |-> UnsetTime,
                            lineNum |-> 1, warned |-> <<>>],
                           SubSeq(f.content, 1, upto))
       IN [ok |-> TRUE, index |-> st.index, warned |-> st.warned]
  ELSE [ok |-> FALSE, index |-> idx, warned |-> <<>>]

\* read() on file f with the index idx loaded before.  The stream delivers
\* the first `upto` lines: all of them, or fewer when the file becomes
\* unreadable on the way (atEnd() is true after a failed device read).
Read(idx, f, upto) ==
  IF CanOpen(f)
  THEN LET st == ReadLines([index |-> EmptyIndex, lastTimestamp |-> UnsetTime,
                            lineNum |-> 1, warned |-> <<>>],
                           SubSeq(f.content, 1, upto))
       IN [ok |-> TRUE, index |-> st.index, warned |-> st.warned]
  ELSE [ok |-> FALSE, index |-> idx, warned |-> <<>>]


(***************************************************************************)
(* Rect (geo/rect.cpp): a latitude/longitude rectangle given by its top    *)
(* left and bottom right position.  Coordinates are whole degrees.         *)
(***************************************************************************)
\* Pos::INVALID_VALUE, the coordinate of a position that is not valid: larger
\* than every longitude and latitude
InvalidValue == 1000

getLonX(pos) == IF pos.valid THEN pos.lonx ELSE InvalidValue
getLatY(pos) == IF pos.valid THEN pos.laty ELSE InvalidValue

Abs(x) == IF x < 0 THEN -x ELSE x

\* atools::almostEqual(f1, f2, epsilon)
almostEqual(f1, f2, epsilon) == Abs(f1 - f2) <= epsilon

\* Rect(topLeftPos, bottomRightPos)
Rect(topLeftPos, bottomRightPos) == [topLeft |-> topLeftPos, bottomRight |-> bottomRightPos]
\* Rect(leftLonX, topLatY, rightLonX, bottomLatY)
RectOf(leftLonX, topLatY, rightLonX, bottomLatY) ==
  Rect(ValidPos(leftLonX, topLatY), ValidPos(rightLonX, bottomLatY))
\* Rect(singlePos)
RectPoint(singlePos) == Rect(singlePos, singlePos)
\* Rect()
EmptyRect == Rect(InvalidPos, InvalidPos)

isValid(r) == r.topLeft.valid /\ r.bottomRight.valid
getNorth(r) == getLatY(r.topLeft)
getSouth(r) == getLatY(r.bottomRight)
getEast(r) == getLonX(r.bottomRight)
getWest(r) == getLonX(r.topLeft)

\* two degrees a whole number apart differ by more than any epsilon the code uses
isPoint(r) ==
  /\ isValid(r)
  /\ almostEqual(getLonX(r.topLeft), getLonX(r.bottomRight), 0)
  /\ almostEqual(getLatY(r.topLeft), getLatY(r.bottomRight), 0)

crossesAntiMeridian(r) ==
  \/ getEast(r) < getWest(r)
  \/ almostEqual(getEast(r), 180, 0) /\ almostEqual(getWest(r), -180, 0)

\* a split that hands every region back whole
splitNever(r) == IF isValid(r) THEN <<r>> ELSE <<>>

splitAtAntiMeridian(r) ==
  IF isValid(r)
  THEN IF crossesAntiMeridian(r)
       THEN <<RectOf(getWest(r), getNorth(r), 180, getSouth(r)),
              RectOf(-180, getNorth(r), getEast(r), getSouth(r))>>
       ELSE <<r>>
  ELSE <<>>

\* a contains that looks at west..east of the region as it is
containsUnsplit(r, pos) ==
  /\ isValid(r) \/ pos.valid
  /\ getWest(r) <= getLonX(pos) /\ getLonX(pos) <= getEast(r)
  /\ getNorth(r) >= getLatY(pos) /\ getLatY(pos) >= getSouth(r)

contains(r, pos) ==
  /\ isValid(r) \/ pos.valid
  /\ \E i \in DOMAIN splitAtAntiMeridian(r) :
       LET part == splitAtAntiMeridian(r)[i]
       IN /\ getWest(part) <= getLonX(pos) /\ getLonX(pos) <= getEast(part)
          /\ getNorth(part) >= getLatY(pos) /\ getLatY(pos) >= getSouth(part)

\* the four cases of two intervals lo..hi and lo2..hi2 that touch
Intersects(hi, lo, hi2, lo2) ==
  \/ hi >= hi2 /\ lo <= hi2
  \/ hi2 >= hi /\ lo2 <= hi
  \/ hi >= lo2 /\ lo <= lo2
  \/ hi2 >= lo /\ lo2 <= lo

\* an overlaps that takes every region as one that does not cross the date line
overlapsUncrossed(r, other) ==
  IF ~isValid(r) \/ ~isValid(other) THEN FALSE
  ELSE IF isPoint(r) /\ isPoint(other) THEN r = other
  ELSE /\ Intersects(getNorth(r), getSouth(r), getNorth(other), getSouth(other))
       /\ Intersects(getEast(r), getWest(r), getEast(other), getWest(other))

\* an overlaps that looks only at the east part of a region that crosses the
\* date line when it is the argument
overlapsEastPart(r, other) ==
  IF ~isValid(r) \/ ~isValid(other) THEN FALSE
  ELSE IF isPoint(r) /\ isPoint(other) THEN r = other
  ELSE LET e == getEast(r)
           w == getWest(r)
           e2 == getEast(other)
           w2 == getWest(other)
       IN /\ Intersects(getNorth(r), getSouth(r), getNorth(other), getSouth(other))
          /\ IF ~crossesAntiMeridian(r)
             THEN IF ~crossesAntiMeridian(other)
                  THEN Intersects(e, w, e2, w2)
                  ELSE w <= e2
             ELSE IF crossesAntiMeridian(other)
                  THEN TRUE
                  ELSE w2 <= e \/ e2 >= w

\* an overlaps that takes two points for apart
overlapsPointsApart(r, other) ==
  IF ~isValid(r) \/ ~isValid(other) THEN FALSE
  ELSE IF isPoint(r) /\ isPoint(other) THEN FALSE
  ELSE LET n == getNorth(r)
           s == getSouth(r)
           e == getEast(r)
           w == getWest(r)
           n2 == getNorth(other)
           s2 == getSouth(other)
           e2 == getEast(other)
           w2 == getWest(other)
       IN /\ \/ n >= n2 /\ s <= n2
             \/ n2 >= n /\ s2 <= n
             \/ n >= s2 /\ s <= s2
             \/ n2 >= s /\ s2 <= s
          /\ IF ~crossesAntiMeridian(r)
             THEN IF ~crossesAntiMeridian(other)
                  THEN \/ e >= e2 /\ w <= e2
                       \/ e2 >= e /\ w2 <= e
                       \/ e >= w2 /\ w <= w2
                       \/ e2 >= w /\ w2 <= w
                  ELSE w <= e2 \/ e >= w2
             ELSE IF crossesAntiMeridian(other)
                  THEN TRUE
                  ELSE w2 <= e \/ e2 >= w

overlaps(r, other) ==
  IF ~isValid(r) \/ ~isValid(other) THEN FALSE
  ELSE IF isPoint(r) /\ isPoint(other) THEN r = other
  ELSE LET n == getNorth(r)
           s == getSouth(r)
           e == getEast(r)
           w == getWest(r)
           n2 == getNorth(other)
           s2 == getSouth(other)
           e2 == getEast(other)
           w2 == getWest(other)
       IN /\ \/ n >= n2 /\ s <= n2
             \/ n2 >= n /\ s2 <= n
             \/ n >= s2 /\ s <= s2
             \/ n2 >= s /\ s2 <= s
          /\ IF ~crossesAntiMeridian(r)
             THEN IF ~crossesAntiMeridian(other)
                  THEN \/ e >= e2 /\ w <= e2
                       \/ e2 >= e /\ w2 <= e
                       \/ e >= w2 /\ w <= w2
                       \/ e2 >= w /\ w2 <= w
                  ELSE w <= e2 \/ e >= w2
             ELSE IF crossesAntiMeridian(other)
                  THEN TRUE
                  ELSE w2 <= e \/ e2 >= w

\* EMPTY_POS for a region that is not valid
getCenter(r) ==
  IF isValid(r)
  THEN ValidPos((getLonX(r.topLeft) + getLonX(r.bottomRight)) \div 2,
                (getLatY(r.topLeft) + getLatY(r.bottomRight)) \div 2)
  ELSE InvalidPos

\* an inflate that does not look at the range of the coordinates
inflateUnclamped(r, degreesLon, degreesLat) ==
  IF ~isValid(r) THEN r
  ELSE RectOf(getWest(r) - degreesLon, getNorth(r) + degreesLat,
              getEast(r) + degreesLon, getSouth(r) - degreesLat)

inflate(r, degreesLon, degreesLat) ==
  IF ~isValid(r) THEN r
  ELSE RectOf(IF getWest(r) - degreesLon > -180 THEN getWest(r) - degreesLon ELSE -180,
              IF getNorth(r) + degreesLat < 90 THEN getNorth(r) + degreesLat ELSE 90,
              IF getEast(r) + degreesLon < 180 THEN getEast(r) + degreesLon ELSE 180,
              IF getSouth(r) - degreesLat > -90 THEN getSouth(r) - degreesLat ELSE -90)


(***************************************************************************)
(* State                                                                   *)
(***************************************************************************)
VARIABLES
  fs,                  \* the file system: path -> file
  filename,            \* FileSystemWatcher::filename
  fileTimestamp,       \* FileSystemWatcher::fileTimestamp, 0 = not valid
  lastFileSize,        \* FileSystemWatcher::lastFileSize
  delayTimer,          \* ticks until fileUpdatedDelayed, -1 = stopped
  periodicCheckTimer,  \* ticks until the periodic check, -1 = stopped
  watched,             \* what the QFileSystemWatcher watches: "file", "dir"
  weatherFile,         \* XpWeatherReader::weatherFile
  connected,           \* fileUpdated is connected to XpWeatherReader::pathChanged
  index,               \* XpWeatherReader::index
  extLeft,             \* external events (calls, file system operations) left
  op,                  \* the handler that ran last and what it found
  hist,                \* what happened since the monitor was started
  rect                 \* a Rect object of the application

vars == <<fs, filename, fileTimestamp, lastFileSize, delayTimer, periodicCheckTimer,
          watched, weatherFile, connected, index, extLeft, op, hist, rect>>

monitorVars == <<filename, fileTimestamp, lastFileSize, delayTimer, periodicCheckTimer,
                 watched>>
serviceVars == <<weatherFile, connected, index>>

FileInfo(path) == IF path = NoPath THEN NoFile ELSE fs[path]

Min(a, b) == IF a < b THEN a ELSE b

NewHist ==
  [nFileUpdated |-> 0,     \* fileUpdated signals emitted
   nWeatherUpdated |-> 0,  \* weatherUpdated signals emitted
   windows |-> 0,          \* debounce windows opened
   winLen |-> 0,           \* changes detected in the current window
   winEmits |-> 0,         \* fileUpdated signals since the last detected change
   winAge |-> 0,           \* ticks since the last detected change, up to DelayMs
   changes |-> 0,          \* contents the watched file took (the first one included)
   checked |-> FALSE,      \* pathOrFileChanged ran
   sawGone |-> FALSE,      \* pathOrFileChanged found the file missing
   touched |-> FALSE,      \* the environment touched the watched file
   cancelled |-> FALSE,    \* the start stopped a pending debounce timer
   hadIndex |-> FALSE,     \* the start found entries loaded from the path before
   moved |-> FALSE]        \* the start found the monitor running on another path

\* the last step: its handler, what the handler found, and for a read whether
\* the stream ended before the end of the file
Ran(name, res) == [name |-> name, res |-> res, cut |-> FALSE]
RanRead(name, res, cut) == [name |-> name, res |-> res, cut |-> cut]
\* and the path the fileUpdated signal carries
RanEvent(name, res, cut, path) == [name |-> name, res |-> res, cut |-> cut, path |-> path]
\* and the line numbers of the warnings the read logged
RanReadWarned(name, res, cut, warned) ==
  [name |-> name, res |-> res, cut |-> cut, warned |-> warned]

(***************************************************************************)
(* FileSystemWatcher                                                       *)
(***************************************************************************)
\* fileinfo.exists() && fileinfo.isFile() && fileinfo.size() > minFileSize
FileUsable(f) == IsRegularFile(f) /\ FileSize(f) > MinFileSize

\* a comparison that takes every file for changed
FileDiffersAlways(timestamp, size, f) == TRUE

\* a comparison that looks at the modification time only
FileDiffersByTime(timestamp, size, f) == timestamp = 0 \/ f.mtime > timestamp

\* !fileTimestamp.isValid() || lastModified() > fileTimestamp || lastFileSize != size()
FileDiffers(timestamp, size, f) ==
  timestamp = 0 \/ f.mtime > timestamp \/ size # FileSize(f)

\* a start() that leaves a running timer alone
TimerStartKeep(remaining, msec) == IF remaining >= 0 THEN remaining ELSE msec

\* QTimer::start(msec): starts or restarts the timer with the full interval
TimerStart(remaining, msec) == msec

\* a delay timer that keeps repeating
DelayTimerRepeats == FALSE

\* delayTimer.setSingleShot(true) in the constructor
DelayTimerSingleShot == TRUE

\* the timer after its timeout: a single shot timer stops, another one runs again
TimerAfterTimeout(singleShot, msec) == IF singleShot THEN -1 ELSE msec

\* a check that forgets the periodic timer when the file is missing
CheckFileNoPoll(f, timestamp, size, delay) ==
  IF FileUsable(f)
  THEN IF FileDiffers(timestamp, size, f)
       THEN [res |-> "changed", timestamp |-> f.mtime, size |-> FileSize(f),
             delay |-> TimerStart(delay, DelayMs), periodic |-> -1]
       ELSE [res |-> "unchanged", timestamp |-> timestamp, size |-> size,
             delay |-> delay, periodic |-> TimerStart(-1, CheckMs)]
  ELSE [res |-> "nodata", timestamp |-> timestamp, size |-> size,
        delay |-> delay, periodic |-> -1]

\* a check that forgets what it recorded when the file is missing
CheckFileForgets(f, timestamp, size, delay) ==
  IF FileUsable(f)
  THEN IF FileDiffers(timestamp, size, f)
       THEN [res |-> "changed", timestamp |-> f.mtime, size |-> FileSize(f),
             delay |-> TimerStart(delay, DelayMs), periodic |-> -1]
       ELSE [res |-> "unchanged", timestamp |-> timestamp, size |-> size,
             delay |-> delay, periodic |-> TimerStart(-1, CheckMs)]
  ELSE [res |-> "nodata", timestamp |-> 0, size |-> 0,
        delay |-> delay, periodic |-> TimerStart(-1, CheckMs)]

\* a check that starts the periodic timer also when it finds a change
CheckFileKeepsPoll(f, timestamp, size, delay) ==
  IF FileUsable(f)
  THEN IF FileDiffers(timestamp, size, f)
       THEN [res |-> "changed", timestamp |-> f.mtime, size |-> FileSize(f),
             delay |-> TimerStart(delay, DelayMs), periodic |-> TimerStart(-1, CheckMs)]
       ELSE [res |-> "unchanged", timestamp |-> timestamp, size |-> size,
             delay |-> delay, periodic |-> TimerStart(-1, CheckMs)]
  ELSE [res |-> "nodata", timestamp |-> timestamp, size |-> size,
        delay |-> delay, periodic |-> TimerStart(-1, CheckMs)]

\* pathOrFileChanged(): what the check decides for file f
CheckFile(f, timestamp, size, delay) ==
  IF FileUsable(f)
  THEN IF FileDiffers(timestamp, size, f)
       THEN [res |-> "changed", timestamp |-> f.mtime, size |-> FileSize(f),
             delay |-> TimerStart(delay, DelayMs), periodic |-> -1]
       ELSE [res |-> "unchanged", timestamp |-> timestamp, size |-> size,
             delay |-> delay, periodic |-> TimerStart(-1, CheckMs)]
  ELSE [res |-> "nodata", timestamp |-> timestamp, size |-> size,
        delay |-> delay, periodic |-> TimerStart(-1, CheckMs)]

pathOrFileChanged ==
  LET r == CheckFile(FileInfo(filename), fileTimestamp, lastFileSize, delayTimer)
      detected == r.res = "changed"
  IN /\ fileTimestamp' = r.timestamp
     /\ lastFileSize' = r.size
     /\ delayTimer' = r.delay
     /\ periodicCheckTimer' = r.periodic
     /\ op' = Ran("check", r.res)
     /\ hist' = [hist EXCEPT
                   !.checked = TRUE,
                   !.sawGone = @ \/ FileInfo(filename).kind = "absent",
                   !.windows = IF detected /\ delayTimer < 0 THEN @ + 1 ELSE @,
                   !.winLen = IF ~detected THEN @
                              ELSE IF delayTimer < 0 THEN 1 ELSE @ + 1,
                   !.winEmits = IF detected THEN 0 ELSE @,
                   !.winAge = IF detected THEN 0 ELSE @]
     /\ UNCHANGED <<fs, filename, watched, serviceVars, extLeft>>

\* QFileSystemWatcher::fileChanged or directoryChanged is delivered
NativeNotification ==
  /\ watched # {}
  /\ pathOrFileChanged
  /\ UNCHANGED rect

\* periodicCheckTimer times out
PeriodicTimeout ==
  /\ periodicCheckTimer = 0
  /\ pathOrFileChanged
  /\ UNCHANGED rect

\* how many lines a read of file f may get to see: all of them, or fewer when
\* the environment makes the file unreadable on the way (an external event)
ReadLengths(f, left) ==
  IF CanOpen(f) /\ left > 0 THEN 0..Len(f.content) ELSE {Len(f.content)}
CutCost(f, upto) == IF upto < Len(f.content) THEN 1 ELSE 0

\* a slot that announces an update whatever read() returns
PathChangedAlwaysEmits(idx, f, upto) ==
  IF IsRegularFile(f)
  THEN LET r == Read(idx, f, upto)
       IN [res |-> IF r.ok THEN "read" ELSE "read-failed",
           index |-> r.index,
           updated |-> 1]
  ELSE [res |-> "absent", index |-> idx, updated |-> 1]

\* a slot that drops the index when the file is gone
PathChangedClears(idx, f, upto) ==
  IF IsRegularFile(f)
  THEN LET r == Read(idx, f, upto)
       IN [res |-> IF r.ok THEN "read" ELSE "read-failed",
           index |-> r.index,
           updated |-> IF r.ok THEN 1 ELSE 0]
  ELSE [res |-> "absent", index |-> EmptyIndex, updated |-> 0]

\* XpWeatherReader::pathChanged: what the slot does with file f
PathChanged(idx, f, upto) ==
  IF IsRegularFile(f)
  THEN LET r == Read(idx, f, upto)
       IN [res |-> IF r.ok THEN "read" ELSE "read-failed",
           index |-> r.index,
           updated |-> IF r.ok THEN 1 ELSE 0]
  ELSE [res |-> "absent", index |-> idx, updated |-> 0]

\* a timeout of the delay timer that does not start the periodic timer
fileUpdatedDelayedNoPoll ==
  /\ delayTimer = 0
  /\ \E upto \in ReadLengths(FileInfo(weatherFile), IF connected THEN extLeft ELSE 0) :
       LET r == IF connected THEN PathChanged(index, FileInfo(weatherFile), upto)
                ELSE [res |-> "unconnected", index |-> index, updated |-> 0]
       IN /\ index' = r.index
          /\ extLeft' = extLeft - CutCost(FileInfo(weatherFile), upto)
          /\ op' = RanEvent("fileUpdated", r.res,
                             r.res = "read" /\ upto < Len(FileInfo(weatherFile).content),
                             filename)
          /\ hist' = [hist EXCEPT !.nFileUpdated = @ + 1,
                                  !.winEmits = @ + 1,
                                  !.nWeatherUpdated = @ + r.updated]
  /\ delayTimer' = TimerAfterTimeout(DelayTimerSingleShot, DelayMs)
  /\ periodicCheckTimer' = periodicCheckTimer
  /\ UNCHANGED <<fs, filename, fileTimestamp, lastFileSize, watched, weatherFile,
                 connected>>
  /\ UNCHANGED rect

\* delayTimer times out: fileUpdatedDelayed(), and the slot connected to fileUpdated
fileUpdatedDelayed ==
  /\ delayTimer = 0
  /\ \E upto \in ReadLengths(FileInfo(weatherFile), IF connected THEN extLeft ELSE 0) :
       LET r == IF connected THEN PathChanged(index, FileInfo(weatherFile), upto)
                ELSE [res |-> "unconnected", index |-> index, updated |-> 0]
       IN /\ index' = r.index
          /\ extLeft' = extLeft - CutCost(FileInfo(weatherFile), upto)
          /\ op' = RanEvent("fileUpdated", r.res,
                             r.res = "read" /\ upto < Len(FileInfo(weatherFile).content),
                             filename)
          /\ hist' = [hist EXCEPT !.nFileUpdated = @ + 1,
                                  !.winEmits = @ + 1,
                                  !.nWeatherUpdated = @ + r.updated]
  /\ delayTimer' = TimerAfterTimeout(DelayTimerSingleShot, DelayMs)
  /\ periodicCheckTimer' = TimerStart(periodicCheckTimer, CheckMs)
  /\ UNCHANGED <<fs, filename, fileTimestamp, lastFileSize, watched, weatherFile,
                 connected>>
  /\ UNCHANGED rect

\* time passes: no timer is due
Tick ==
  /\ delayTimer # 0
  /\ periodicCheckTimer # 0
  /\ delayTimer > 0 \/ periodicCheckTimer > 0
  /\ delayTimer' = IF delayTimer > 0 THEN delayTimer - 1 ELSE delayTimer
  /\ periodicCheckTimer' =
       IF periodicCheckTimer > 0 THEN periodicCheckTimer - 1 ELSE periodicCheckTimer
  /\ op' = Ran("tick", "")
  /\ hist' = [hist EXCEPT !.winAge = Min(@ + 1, DelayMs)]
  /\ UNCHANGED <<fs, filename, fileTimestamp, lastFileSize, watched, serviceVars,
                 extLeft>>
  /\ UNCHANGED rect

\* a watcher that registers the file only
WatchFileOnly(f) == IF f.kind = "absent" THEN {} ELSE {"file"}

\* what createFsWatcher() registers with the QFileSystemWatcher for file f:
\* addPath(filename) succeeds when the path exists, the directory always does
WatchPaths(f) == IF f.kind = "absent" THEN {"dir"} ELSE {"file", "dir"}

\* a start that leaves a pending debounce timer of the path before running
setFilenameAndStartKeepsDelay(value) ==
  /\ filename' = value
  /\ delayTimer' = delayTimer
  /\ watched' = WatchPaths(FileInfo(value))
  /\ periodicCheckTimer' = TimerStart(-1, CheckMs)
  /\ hist' = [NewHist EXCEPT
                !.changes = IF FileUsable(FileInfo(value)) THEN 1 ELSE 0,
                !.cancelled = delayTimer >= 0,
                !.hadIndex = index # EmptyIndex,
                !.moved = filename \notin {NoPath, value}]

\* a start that does not start the periodic timer
setFilenameAndStartNoPoll(value) ==
  /\ filename' = value
  /\ delayTimer' = -1
  /\ watched' = WatchPaths(FileInfo(value))
  /\ periodicCheckTimer' = -1
  /\ hist' = [NewHist EXCEPT
                !.changes = IF FileUsable(FileInfo(value)) THEN 1 ELSE 0,
                !.cancelled = delayTimer >= 0,
                !.hadIndex = index # EmptyIndex,
                !.moved = filename \notin {NoPath, value}]

\* FileSystemWatcher::setFilenameAndStart(value): clear(), createFsWatcher()
setFilenameAndStart(value) ==
  /\ filename' = value
  /\ delayTimer' = -1
  /\ watched' = WatchPaths(FileInfo(value))
  /\ periodicCheckTimer' = TimerStart(-1, CheckMs)
  /\ hist' = [NewHist EXCEPT
                !.changes = IF FileUsable(FileInfo(value)) THEN 1 ELSE 0,
                !.cancelled = delayTimer >= 0,
                !.hadIndex = index # EmptyIndex,
                !.moved = filename \notin {NoPath, value}]

\* a clear() that forgets the file name and the watcher but leaves the timers running
clearWatcherKeepsTimers ==
  /\ filename' = NoPath
  /\ delayTimer' = delayTimer
  /\ periodicCheckTimer' = periodicCheckTimer
  /\ watched' = {}

\* FileSystemWatcher::clear(): deleteFsWatcher(), filename.clear()
clearWatcher ==
  /\ filename' = NoPath
  /\ delayTimer' = -1
  /\ periodicCheckTimer' = -1
  /\ watched' = {}

\* the application restarts the monitor it owns on path
MonitorStart(path) ==
  /\ extLeft > 0
  /\ extLeft' = extLeft - 1
  /\ setFilenameAndStart(path)
  /\ op' = Ran("start", "")
  /\ UNCHANGED <<fs, fileTimestamp, lastFileSize, serviceVars>>
  /\ UNCHANGED rect

\* the application stops the monitor it owns
MonitorClear ==
  /\ extLeft > 0
  /\ extLeft' = extLeft - 1
  /\ clearWatcher
  /\ op' = Ran("clear", "")
  /\ UNCHANGED <<fs, fileTimestamp, lastFileSize, serviceVars, hist>>
  /\ UNCHANGED rect


(***************************************************************************)
(* XpWeatherReader                                                         *)
(***************************************************************************)
\* a readWeatherFile that does not clear the index of the path before
readWeatherFileKeepsIndex(file, upto) ==
  LET f == FileInfo(file)
      r == IF IsRegularFile(f) THEN ReadKeepsOld(index, f, upto)
           ELSE [ok |-> FALSE, index |-> index, warned |-> <<>>]
  IN /\ weatherFile' = file
     /\ connected' = TRUE
     /\ fileTimestamp' = 0
     /\ lastFileSize' = 0
     /\ setFilenameAndStart(file)
     /\ index' = r.index
     /\ op' = RanRead("readWeatherFile",
                      IF ~IsRegularFile(f) THEN "absent"
                      ELSE IF r.ok THEN "read" ELSE "read-failed",
                      r.ok /\ upto < Len(f.content))

\* readWeatherFile(file): clear(), createFsWatcher() with a new
\* FileSystemWatcher, and read() when the file is there
readWeatherFile(file, upto) ==
  LET f == FileInfo(file)
      r == IF IsRegularFile(f) THEN Read(EmptyIndex, f, upto)
           ELSE [ok |-> FALSE, index |-> EmptyIndex, warned |-> <<>>]
  IN /\ weatherFile' = file
     /\ connected' = TRUE
     /\ fileTimestamp' = 0
     /\ lastFileSize' = 0
     /\ setFilenameAndStart(file)
     /\ index' = r.index
     /\ op' = RanReadWarned("readWeatherFile",
                            IF ~IsRegularFile(f) THEN "absent"
                            ELSE IF r.ok THEN "read" ELSE "read-failed",
                            r.ok /\ upto < Len(f.content),
                            r.warned)

\* the application points the service at file
ReadWeatherFile(file) ==
  /\ extLeft > 0
  /\ \E upto \in ReadLengths(FileInfo(file), extLeft - 1) :
       /\ readWeatherFile(file, upto)
       /\ extLeft' = extLeft - 1 - CutCost(FileInfo(file), upto)
  /\ UNCHANGED fs
  /\ UNCHANGED rect

\* XpWeatherReader::clear(): deleteFsWatcher(), index.clear(), weatherFile.clear();
\* the FileSystemWatcher is disconnected and deleted, its destructor calls clear()
ServiceClear ==
  /\ extLeft > 0
  /\ extLeft' = extLeft - 1
  /\ clearWatcher
  /\ fileTimestamp' = 0
  /\ lastFileSize' = 0
  /\ weatherFile' = NoPath
  /\ connected' = FALSE
  /\ index' = EmptyIndex
  /\ op' = Ran("clear", "")
  /\ UNCHANGED <<fs, hist>>
  /\ UNCHANGED rect

(***************************************************************************)
(* The environment: the weather engine and whoever else touches the files  *)
(***************************************************************************)
EnvChange(path, f) ==
  /\ extLeft > 0
  /\ extLeft' = extLeft - 1
  /\ f # fs[path]
  /\ fs' = [fs EXCEPT ![path] = f]
  /\ watched' = IF path = filename /\ f.kind = "absent" THEN watched \ {"file"} ELSE watched
  /\ op' = Ran("env", f.kind)
  /\ hist' = IF path # filename THEN hist
             ELSE [hist EXCEPT
                     !.touched = TRUE,
                     !.changes = IF /\ FileUsable(f)
                                    /\ ~FileUsable(fs[path]) \/ fs[path].content # f.content
                                 THEN @ + 1 ELSE @]
  /\ UNCHANGED <<filename, fileTimestamp, lastFileSize, delayTimer, periodicCheckTimer,
                 serviceVars>>
  /\ UNCHANGED rect

\* the file is written, or created
EnvWrite(path) ==
  \E c \in 1..Len(Contents), m \in 1..MaxMtime :
    /\ fs[path].kind # "dir"
    /\ EnvChange(path, RegularFile(Contents[c], m, TRUE))

\* the file is removed
EnvDelete(path) ==
  /\ fs[path].kind # "absent"
  /\ EnvChange(path, NoFile)

\* a directory takes the place of the file
EnvMkdir(path) ==
  /\ fs[path].kind = "absent"
  /\ EnvChange(path, Directory)

\* the file is made unreadable or readable for the process
EnvChmod(path) ==
  /\ fs[path].kind = "file"
  /\ EnvChange(path, [fs[path] EXCEPT !.readable = ~@])

\* the weather engine rewrites the live file only; the other path keeps its file
Environment ==
  \/ EnvWrite(LivePath)
  \/ EnvDelete(LivePath)
  \/ EnvMkdir(LivePath)
  \/ EnvChmod(LivePath)

(***************************************************************************)
(* Specifications                                                          *)
(***************************************************************************)
\* the live file at the beginning: none, a weather file, a file below the minimum size
InitFiles == {NoFile, RegularFile(Contents[1], 1, TRUE),
              RegularFile(Contents[Len(Contents)], 1, TRUE)}

Init ==
  /\ \E f \in InitFiles :
       fs = [path \in Paths |-> IF path = LivePath THEN f
                                ELSE RegularFile(Contents[2], 1, TRUE)]
  /\ filename = NoPath
  /\ fileTimestamp = 0
  /\ lastFileSize = 0
  /\ delayTimer = -1
  /\ periodicCheckTimer = -1
  /\ watched = {}
  /\ weatherFile = NoPath
  /\ connected = FALSE
  /\ index = EmptyIndex
  /\ extLeft = MaxExternal
  /\ op = Ran("init", "")
  /\ hist = NewHist
  /\ rect = EmptyRect

Handlers ==
  \/ NativeNotification
  \/ PeriodicTimeout
  \/ fileUpdatedDelayed
  \/ Tick

\* the weather service with the monitor it owns
Next ==
  \/ \E file \in Paths \cup {NoPath} : ReadWeatherFile(file)
  \/ ServiceClear
  \/ Handlers
  \/ Environment

Spec == Init /\ [][Next]_vars

\* the monitor alone, driven by its owner
MonitorNext ==
  \/ \E path \in Paths : MonitorStart(path)
  \/ MonitorClear
  \/ Handlers
  \/ Environment

SpecMonitor == Init /\ [][MonitorNext]_vars

\* timers expire and time passes; nothing is assumed of native notifications
TimerFairness ==
  /\ WF_vars(Tick)
  /\ WF_vars(PeriodicTimeout)
  /\ WF_vars(fileUpdatedDelayed)

SpecMonitorFair == SpecMonitor /\ TimerFairness

\* the reader alone: one load of a file made of up to MaxLines lines
DateOnly == <<"2","0","1","7","/","0","7","/","3","0">>
ShortKA == <<"K","A">>
TabKA == <<"K","A","\t","9">>
Malformed == <<"k","a"," ","9">>
ReadAlphabet == {DateA, DateB, DateOnly, ObsKHYI, ObsKHYI2, ShortKA, TabKA, ObsZZ,
                 Malformed, <<>>}
ReadFiles == UNION {[1..n -> ReadAlphabet] : n \in 0..MaxLines}

InitRead ==
  /\ \E c \in ReadFiles :
       fs = [path \in Paths |-> IF path = LivePath THEN RegularFile(c, 1, TRUE)
                                ELSE RegularFile(Contents[2], 1, TRUE)]
  /\ filename = NoPath
  /\ fileTimestamp = 0
  /\ lastFileSize = 0
  /\ delayTimer = -1
  /\ periodicCheckTimer = -1
  /\ watched = {}
  /\ weatherFile = NoPath
  /\ connected = FALSE
  /\ index = EmptyIndex
  /\ extLeft = 1
  /\ op = Ran("init", "")
  /\ hist = NewHist
  /\ rect = EmptyRect

NextRead == ReadWeatherFile(LivePath)

SpecRead == InitRead /\ [][NextRead]_vars


\* the service queried: one load of a file of up to MaxStations station lines,
\* and queries before and after it
ObsKA == <<"K","A"," ","9">>
QueryLines == {ObsKHYI, ObsKPRO, ObsKA, ObsZZ}
QueryFiles == UNION {[1..n -> QueryLines] : n \in 0..MaxStations}
QueryStations == {FirstSection(line) : line \in QueryLines}
QueryPositions == {ValidPos(-98, 30), ValidPos(-94, 42), ValidPos(-80, 35),
                   ValidPos(-90, 37), ValidPos(170, -40), InvalidPos}

InitQuery ==
  /\ \E c \in QueryFiles :
       fs = [path \in Paths |-> IF path = LivePath THEN RegularFile(c, 1, TRUE)
                                ELSE RegularFile(Contents[2], 1, TRUE)]
  /\ filename = NoPath
  /\ fileTimestamp = 0
  /\ lastFileSize = 0
  /\ delayTimer = -1
  /\ periodicCheckTimer = -1
  /\ watched = {}
  /\ weatherFile = NoPath
  /\ connected = FALSE
  /\ index = EmptyIndex
  /\ extLeft = 1
  /\ op = Ran("init", "")
  /\ hist = NewHist
  /\ rect = EmptyRect

\* the application asks for the weather of station at pos; a search for the
\* nearest station is made with a valid position only
GetXplaneMetar(station, pos) ==
  /\ pos.valid \/ IndexContains(index, station)
  /\ op' = [name |-> "getXplaneMetar", res |-> getXplaneMetar(index, station, pos),
            cut |-> FALSE, station |-> station, pos |-> pos]
  /\ UNCHANGED <<fs, monitorVars, serviceVars, extLeft, hist>>
  /\ UNCHANGED rect

NextQuery ==
  \/ ReadWeatherFile(LivePath)
  \/ \E station \in QueryStations, pos \in QueryPositions : GetXplaneMetar(station, pos)

SpecQuery == InitQuery /\ [][NextQuery]_vars

(***************************************************************************)
(* Properties of the file change monitor                                   *)
(***************************************************************************)
Running == filename # NoPath
Watched == FileInfo(filename)
Recorded == ~FileDiffers(fileTimestamp, lastFileSize, Watched)
Detected == op.name = "check" /\ op.res = "changed"

\* C1: a change detected while the debounce timer is pending re-arms the
\* timer for the full delay and emits nothing; the timer always has the delay
\* minus the time since the last detected change left, so that an event is
\* emitted only when the full delay has passed since the last detected change;
\* a run of changes detected in one window has produced no event while the
\* window is open and exactly one once it is over.
C1_Debounce ==
  /\ Detected => (delayTimer = DelayMs /\ hist.winEmits = 0)
  /\ delayTimer >= 0 => (hist.winEmits = 0 /\ delayTimer = DelayMs - hist.winAge)
  /\ hist.winEmits <= 1
  /\ hist.winEmits = 1 => hist.winAge = DelayMs
  /\ (Running /\ hist.winLen > 0 /\ delayTimer < 0) => hist.winEmits = 1

\* a window of two or more detected changes is over and has produced its event
C1_Witness == op.name = "fileUpdated" /\ hist.winLen >= 2 /\ hist.winEmits = 1

\* C2: once the watched file is a regular file above the minimum size that
\* differs from the recorded values (nothing recorded, a later modification
\* time or another size) and nobody touches it or the monitor any more, the
\* monitor gets to record it and to emit a file-updated event after that, with
\* timer expiries alone being fair.
C2_PollBackstop ==
  (extLeft = 0 /\ Running /\ FileUsable(Watched) /\ ~Recorded)
    ~> (Recorded /\ hist.winEmits = 1)

\* a file that appeared after the monitor had found none has been announced
C2_Witness ==
  /\ extLeft = 0
  /\ Running
  /\ hist.sawGone
  /\ hist.touched
  /\ FileUsable(Watched)
  /\ Recorded
  /\ hist.winEmits = 1

\* C3, as stated: the monitor found the file missing and the file is back;
\* when the monitor has caught up with it (nothing left to detect, no debounce
\* pending), it has raised one event for every content the file took.
C3_OnePerContentChange ==
  (Running /\ hist.sawGone /\ delayTimer < 0 /\ FileUsable(Watched) /\ Recorded)
    => hist.nFileUpdated = hist.changes

\* C3, amended: the monitor raises exactly one event per debounce window: the
\* windows that are over have produced one event each, the open one none.  A
\* window is opened only by a check that finds a usable file differing from
\* the recorded values; a check that finds the file missing detects nothing,
\* so a deletion opens no window and raises nothing.
C3_OnePerWindow ==
  /\ Running => hist.nFileUpdated + (IF delayTimer >= 0 THEN 1 ELSE 0) = hist.windows
  /\ Detected => FileUsable(Watched)
  /\ (op.name = "check" /\ ~FileUsable(Watched)) => op.res = "nodata"

\* the file was found missing and came back: each of the two contents was announced
C3_Witness ==
  /\ Running
  /\ hist.sawGone
  /\ hist.changes = 2
  /\ hist.windows = 2
  /\ hist.nFileUpdated = 2

\* C4, as stated: when start returns and the file is above the threshold, its
\* modification time and size are recorded and the debounce timer is armed.
C4_FirstCheckInStart ==
  (op.name = "start" /\ FileUsable(Watched))
    => (fileTimestamp = Watched.mtime /\ lastFileSize = FileSize(Watched) /\ delayTimer >= 0)

\* C4, amended: start registers the parent directory and, when the path
\* exists, the file, arms the periodic timer and returns without a check;
\* until the first check (at the first expiry of the periodic timer or the
\* first native notification) the debounce timer is stopped, the periodic
\* timer runs and nothing is emitted.  A check that finds the file changed
\* records its modification time and size and arms the debounce timer.
C4_StartArmsPoll ==
  /\ op.name = "start" =>
       /\ "dir" \in watched
       /\ "file" \in watched <=> Watched.kind # "absent"
       /\ periodicCheckTimer = CheckMs
       /\ ~hist.checked
  /\ (Running /\ ~hist.checked) =>
       (delayTimer = -1 /\ periodicCheckTimer >= 0 /\ hist.nFileUpdated = 0)
  /\ Detected =>
       /\ fileTimestamp = Watched.mtime
       /\ lastFileSize = FileSize(Watched)
       /\ delayTimer = DelayMs

\* the first check after start found the file that was there at start
C4_Witness ==
  /\ Detected
  /\ ~hist.touched
  /\ hist.windows = 1
  /\ hist.winLen = 1
  /\ hist.nFileUpdated = 0

(***************************************************************************)
(* Properties of the weather service                                       *)
(***************************************************************************)
Source == FileInfo(weatherFile)
Raised == hist'.nWeatherUpdated - hist.nWeatherUpdated

\* C5, as stated: the file was there when readWeatherFile was called and has
\* not been touched since; no update notification is raised.
C5_NoUpdateWithoutChange ==
  (Running /\ ~hist.touched /\ IsRegularFile(Watched)) => hist.nWeatherUpdated = 0

\* C5, amended: the load itself raises no notification, but the first check of
\* the new monitor takes the file for changed (nothing is recorded yet), so a
\* file that never changes after the load is announced at most once, and that
\* only when it is above the minimum size, by the one file-updated event of
\* the window this first check opened.
C5_OneUpdateForFirstCheck ==
  /\ op.name = "readWeatherFile" => hist.nWeatherUpdated = 0
  /\ (Running /\ ~hist.touched /\ IsRegularFile(Watched)) =>
       /\ hist.nWeatherUpdated <= 1
       /\ hist.nWeatherUpdated = 1 =>
            (FileUsable(Watched) /\ Recorded /\ hist.nFileUpdated = 1 /\ hist.windows = 1)

\* the untouched file was announced after the load
C5_Witness ==
  /\ op.name = "fileUpdated"
  /\ op.res = "read"
  /\ ~hist.touched
  /\ hist.nWeatherUpdated = 1

\* C6: on a file-updated event the connected service runs read() when the
\* file is a regular file; it raises exactly one update notification when
\* read() reports success, which is when the file could be opened, and the
\* index is then the one this read built; it raises none when read() fails or
\* the file is not there.
C6_NotifyIffReadSucceeds ==
  [][(op'.name = "fileUpdated" /\ connected) =>
       /\ op'.res = "read" <=> CanOpen(Source)
       /\ op'.res = "read" =>
            /\ Raised = 1
            /\ \E n \in 0..Len(Source.content) : index' = Read(index, Source, n).index
       /\ op'.res # "read" => Raised = 0]_vars

\* of two events one found no readable file and one was read and announced
C6_Witness ==
  /\ op.name = "fileUpdated"
  /\ op.res = "read"
  /\ hist.nFileUpdated = 2
  /\ hist.nWeatherUpdated = 1

\* C7: read() on a regular file that cannot be opened reports failure and
\* leaves the index as it was before the call: the loaded index on a
\* file-updated event, the index just cleared in readWeatherFile; read()
\* reports failure in no other case.
C7_OpenFailureKeepsIndex ==
  [][LET f == FileInfo(weatherFile')
         unopenable == IsRegularFile(f) /\ ~CanOpen(f)
     IN /\ (op'.name = "fileUpdated" /\ connected /\ unopenable) =>
             (op'.res = "read-failed" /\ index' = index /\ Raised = 0)
        /\ (op'.name = "readWeatherFile" /\ unopenable) =>
             (op'.res = "read-failed" /\ index' = EmptyIndex)
        /\ op'.res = "read-failed" => unopenable]_vars

\* a file-updated event met an unreadable file and the loaded entries are still there
C7_Witness ==
  /\ op.name = "fileUpdated"
  /\ op.res = "read-failed"
  /\ index # EmptyIndex

\* C8, as stated: with entries loaded by a previous read, a read on a
\* file-updated event whose stream ends before the end of the file is reported
\* as failed, raises no notification and leaves the loaded index in place.
C8_MidReadFailureKeepsIndex ==
  [][(op'.name = "fileUpdated" /\ op'.cut /\ index # EmptyIndex) =>
       (op'.res = "read-failed" /\ index' = index /\ Raised = 0)]_vars

\* C9: a check never touches the index and raises no notification; a
\* file-updated event that finds no regular file leaves the index as it is
\* and raises none; the index changes only in readWeatherFile, in clear and
\* on a file-updated event that finds a regular file and reads it.
C9_AbsentKeepsIndex ==
  [][/\ op'.name = "check" => (index' = index /\ Raised = 0)
     /\ (op'.name = "fileUpdated" /\ ~IsRegularFile(Source)) =>
          (op'.res \in {"absent", "unconnected"} /\ index' = index /\ Raised = 0)
     /\ index' # index =>
          \/ op'.name \in {"readWeatherFile", "clear"}
          \/ op'.name = "fileUpdated" /\ op'.res = "read" /\ IsRegularFile(Source)]_vars

\* a file-updated event found the file gone and the loaded entries are still there
C9_Witness ==
  /\ op.name = "fileUpdated"
  /\ op.res = "absent"
  /\ Source.kind = "absent"
  /\ index # EmptyIndex

(***************************************************************************)
(* Properties of the reader                                                *)
(***************************************************************************)
Loaded == op.name = "readWeatherFile" /\ op.res = "read" /\ ~op.cut
Lines == Source.content

\* the timestamp context of line i: the last date line before it
HeaderOf(i) ==
  LET ds == {k \in 1..(i - 1) : DateMatch(Trimmed(Lines[k]))}
  IN IF ds = {} THEN UnsetTime
     ELSE DateFromString(Trimmed(Lines[CHOOSE k \in ds : \A m \in ds : m <= k]))

\* the first whitespace-delimited token of a line
RECURSIVE FirstToken(_)
FirstToken(s) ==
  IF s = <<>> \/ Head(s) \in SpaceChars THEN <<>> ELSE <<Head(s)>> \o FirstToken(Tail(s))

\* an observation line for ident as the format describes it: not blank, not a
\* date line, the first token an identifier; the identifier has a position
FormatObservation(i, ident) ==
  LET line == Trimmed(Lines[i])
  IN /\ line # <<>>
     /\ ~DateMatch(line)
     /\ FirstToken(line) = ident
     /\ IdentMatch(ident)
     /\ AirportCoords(ident).valid

\* an observation line for ident as the reader takes it: at least four
\* characters, the text before the first blank is the identifier
ReaderObservation(i, ident) ==
  LET line == Trimmed(Lines[i])
  IN /\ Len(line) >= 4
     /\ ~DateMatch(line)
     /\ FirstSection(line) = ident
     /\ IdentMatch(ident)
     /\ AirportCoords(ident).valid

\* C10, as stated: the file has two observation lines for one identifier,
\* under date headers of different timestamps; the entry of the identifier
\* holds the line under the later timestamp, whichever comes first.
C10_LaterHeaderWins ==
  Loaded =>
    \A i, j \in 1..Len(Lines) :
      LET ident == FirstToken(Trimmed(Lines[i]))
          later == IF TimeGreater(HeaderOf(i), HeaderOf(j)) THEN i ELSE j
      IN (/\ i < j
          /\ \A k \in 1..Len(Lines) : FormatObservation(k, ident) <=> k \in {i, j}
          /\ HeaderOf(i).valid
          /\ HeaderOf(j).valid
          /\ HeaderOf(i) # HeaderOf(j))
           => /\ IndexContains(index, ident)
              /\ IndexValue(index, ident).metar = Trimmed(Lines[later])

\* C10, amended: for every identifier with lines the reader takes as
\* observations, the entry holds the last of the lines under the newest of
\* their timestamps (an unset timestamp being older than every date), so of
\* two lines under different timestamps the one under the later timestamp
\* wins, whichever comes first; an identifier without such a line has no entry.
C10_NewestHeaderWins ==
  Loaded =>
    LET header == [k \in 1..Len(Lines) |-> HeaderOf(k)]
        ident == [k \in 1..Len(Lines) |-> FirstSection(Trimmed(Lines[k]))]
        taken == {k \in 1..Len(Lines) : ReaderObservation(k, ident[k])}
    IN \A i \in 1..Len(Lines) :
         LET obs == {k \in taken : ident[k] = ident[i]}
             newest == {k \in obs : \A m \in obs : ~TimeGreater(header[m], header[k])}
             last == CHOOSE k \in newest : \A m \in newest : m <= k
         IN IF obs = {} THEN ~IndexContains(index, ident[i])
            ELSE /\ IndexContains(index, ident[i])
                 /\ IndexValue(index, ident[i]).metar = Trimmed(Lines[last])
                 /\ IndexValue(index, ident[i]).timestamp = header[last]

\* the line under the later date comes first in the file and is the one stored
C10_Witness ==
  /\ Loaded
  /\ \E i, j \in 1..Len(Lines) :
       LET ident == FirstSection(Trimmed(Lines[i]))
       IN /\ i < j
          /\ ReaderObservation(i, ident)
          /\ ReaderObservation(j, ident)
          /\ Lines[i] # Lines[j]
          /\ HeaderOf(j).valid
          /\ TimeGreater(HeaderOf(i), HeaderOf(j))
          /\ IndexValue(index, ident).metar = Trimmed(Lines[i])

(***************************************************************************)
(* Properties of the index after a read                                    *)
(***************************************************************************)
\* the last step ran read() and read() returned true
ReadDone == op.name \in {"readWeatherFile", "fileUpdated"} /\ op.res = "read"
\* the index a complete read of file f builds
CompleteIndex(f) == Read(EmptyIndex, f, Len(f.content)).index

\* C11: a read that gets to the end of the file builds an index that depends
\* on the file only, not on what was loaded before; so a read of a file whose
\* complete index is already loaded leaves every entry as it is: identifier,
\* raw text, timestamp and position.
C11_RereadSameIndex ==
  [][(op'.name \in {"readWeatherFile", "fileUpdated"} /\ op'.res = "read" /\ ~op'.cut) =>
       LET f == FileInfo(weatherFile')
       IN /\ index' = CompleteIndex(f)
          /\ (weatherFile' = weatherFile /\ index = CompleteIndex(f)) => index' = index]_vars

\* the file loaded by readWeatherFile was read a second time, untouched, and
\* the entries are those of the load
C11_Witness ==
  /\ op.name = "fileUpdated"
  /\ op.res = "read"
  /\ ~op.cut
  /\ ~hist.touched
  /\ extLeft = MaxExternal - 1
  /\ index # EmptyIndex
  /\ index = CompleteIndex(Source)

\* the identifiers of the lines of the file that the reader takes as
\* observations of a station with a position
StationsOf(lines) ==
  {FirstSection(Trimmed(lines[k])) :
     k \in {m \in 1..Len(lines) :
              LET line == Trimmed(lines[m])
              IN /\ Len(line) >= 4
                 /\ ~DateMatch(line)
                 /\ IdentMatch(FirstSection(line))
                 /\ AirportCoords(FirstSection(line)).valid}}

\* C12, as stated: after a read that returned true the index has an entry
\* for exactly the stations of the file just read.
C12_ExactlyStationsOfFile ==
  ReadDone => DOMAIN index = StationsOf(Source.content)

\* line i is an identifier line: what the reader looks up a position for
IdentLine(i) ==
  LET line == Trimmed(Lines[i])
  IN Len(line) >= 4 /\ ~DateMatch(line) /\ IdentMatch(FirstSection(line))

\* C13: every entry of the index has the valid position the lookup gave for
\* its identifier; after a load, an identifier line has an entry exactly when
\* its identifier resolves to a valid position, whatever lines come before
\* it: a line without a position is not stored and does not end the read.
C13_OnlyValidPositions ==
  /\ \A k \in DOMAIN index : index[k].pos.valid /\ index[k].pos = AirportCoords(k)
  /\ Loaded =>
       \A i \in 1..Len(Lines) :
         IdentLine(i) =>
           (IndexContains(index, FirstSection(Trimmed(Lines[i])))
              <=> AirportCoords(FirstSection(Trimmed(Lines[i]))).valid)

\* a line without a position is followed by a station that was stored
C13_Witness ==
  /\ Loaded
  /\ \E i, j \in 1..Len(Lines) :
       /\ i < j
       /\ IdentLine(i)
       /\ ~AirportCoords(FirstSection(Trimmed(Lines[i]))).valid
       /\ IdentLine(j)
       /\ IndexContains(index, FirstSection(Trimmed(Lines[j])))

(***************************************************************************)
(* Properties of the queries                                               *)
(***************************************************************************)
Queried == op.name = "getXplaneMetar"

\* C14: a query for an identifier that is in the index returns the raw text
\* of that station as the exact match and no nearest match, whatever the
\* position of the query is.
C14_ExactMatch ==
  (Queried /\ IndexContains(index, op.station)) =>
     /\ op.res.metarForStation = index[op.station].data.metar
     /\ op.res.metarForStation # <<>>
     /\ op.res.metarForNearest = <<>>

\* a station was asked for at a position where another indexed station is nearer
C14_Witness ==
  /\ Queried
  /\ IndexContains(index, op.station)
  /\ op.pos.valid
  /\ \E k \in DOMAIN index :
       Distance(index[k].pos, op.pos) < Distance(index[op.station].pos, op.pos)
  /\ op.res.metarForStation = index[op.station].data.metar

\* C15: a query for an identifier that is not in a non-empty index returns as
\* nearest match the text of an entry that no other entry is nearer to the
\* position of the query than.
C15_NearestMatch ==
  (Queried /\ ~IndexContains(index, op.station) /\ index # EmptyIndex) =>
     \E k \in DOMAIN index :
       /\ op.res.metarForNearest = index[k].data.metar
       /\ \A m \in DOMAIN index :
            Distance(index[k].pos, op.pos) <= Distance(index[m].pos, op.pos)

\* the nearest of several stations was returned, another one is farther away
C15_Witness ==
  /\ Queried
  /\ ~IndexContains(index, op.station)
  /\ \E k, m \in DOMAIN index :
       /\ op.res.metarForNearest = index[k].data.metar
       /\ Distance(index[k].pos, op.pos) < Distance(index[m].pos, op.pos)

\* C16: the result of a query carries the identifier and the position asked
\* for; the exact text is set only for an indexed identifier and is then the
\* text of its entry, the nearest text is set only for an identifier that is
\* not indexed and is then the text of another station; never both; with an
\* empty index both are empty.
C16_ResultShape ==
  Queried =>
     /\ op.res.requestIdent = op.station
     /\ op.res.requestPos = op.pos
     /\ op.res.metarForStation = <<>> \/ op.res.metarForNearest = <<>>
     /\ op.res.metarForStation # <<>> =>
          /\ IndexContains(index, op.station)
          /\ op.res.metarForStation = index[op.station].data.metar
     /\ op.res.metarForNearest # <<>> =>
          /\ ~IndexContains(index, op.station)
          /\ \E k \in DOMAIN index \ {op.station} :
               op.res.metarForNearest = index[k].data.metar
     /\ index = EmptyIndex =>
          (op.res.metarForStation = <<>> /\ op.res.metarForNearest = <<>>)

\* a query found nothing in the empty index
C16_Witness ==
  /\ Queried
  /\ index = EmptyIndex
  /\ op.pos.valid
  /\ op.res.requestIdent = op.station
  /\ op.res.metarForStation = <<>>
  /\ op.res.metarForNearest = <<>>

(***************************************************************************)
(* Properties of stopping and resetting                                    *)
(***************************************************************************)
\* C17: clear() leaves the monitor without a file name, with both timers
\* stopped and nothing watched; a monitor that is not running has both timers
\* stopped and watches nothing, and until the next start no step changes it,
\* checks the file or emits a file-updated event: a second clear() leaves it
\* as the first one did.
C17_ClearStopsMonitor ==
  /\ [](~Running => (delayTimer = -1 /\ periodicCheckTimer = -1 /\ watched = {}))
  /\ [][/\ op'.name = "clear" => ~Running'
        /\ (~Running /\ op'.name # "start") =>
             /\ monitorVars' = monitorVars
             /\ hist'.nFileUpdated = hist.nFileUpdated
             /\ op'.name \notin {"check", "fileUpdated"}]_vars

\* clear() came while the debounce timer was pending: the window never got its event
C17_Witness ==
  /\ op.name = "clear"
  /\ hist.windows = 1
  /\ hist.nFileUpdated = 0
  /\ delayTimer = -1

\* C18: when readWeatherFile returns, the debounce timer is stopped, the
\* periodic timer has its full interval and nothing is counted for the new
\* path; until the first check under the new path no file-updated event, no
\* read and no notification happens; every file-updated event comes from a
\* debounce window that a check under the new path opened, and every
\* notification from such an event.
C18_ResetCancelsPending ==
  /\ op.name = "readWeatherFile" =>
       /\ filename = weatherFile
       /\ delayTimer = -1
       /\ periodicCheckTimer = CheckMs
       /\ ~hist.checked
  /\ (Running /\ ~hist.checked) =>
       (delayTimer = -1 /\ hist.nFileUpdated = 0 /\ hist.nWeatherUpdated = 0)
  /\ op.name = "fileUpdated" =>
       (hist.checked /\ hist.nFileUpdated >= 1 /\ hist.windows >= hist.nFileUpdated)
  /\ hist.nWeatherUpdated <= hist.nFileUpdated

\* readWeatherFile with another path came while the debounce timer was pending
C18_Witness ==
  /\ op.name = "readWeatherFile"
  /\ weatherFile = "alt"
  /\ hist.cancelled
  /\ delayTimer = -1

\* C19: when readWeatherFile returns, the monitor is started on the new path
\* and has not checked it yet; every entry of the index is a line of the file
\* at the new path, stored under the identifier it starts with; the index is
\* the complete index of that file when the read got to its end, and it is
\* empty when there is no regular file at the new path, when the file cannot
\* be opened and when no path is given.
C19_ResetReplacesIndex ==
  op.name = "readWeatherFile" =>
     /\ filename = weatherFile
     /\ ~hist.checked
     /\ \A k \in DOMAIN index :
          \E i \in 1..Len(Source.content) :
            /\ index[k].data.metar = Trimmed(Source.content[i])
            /\ k = FirstSection(Trimmed(Source.content[i]))
     /\ (CanOpen(Source) /\ ~op.cut) => index = CompleteIndex(Source)
     /\ ~CanOpen(Source) => index = EmptyIndex
     /\ weatherFile = NoPath => index = EmptyIndex

\* entries of the path before were loaded; the index is that of the other file now
C19_Witness ==
  /\ op.name = "readWeatherFile"
  /\ weatherFile = "alt"
  /\ hist.hadIndex
  /\ index # EmptyIndex
  /\ index = CompleteIndex(Source)

\* C20, as stated: a file-updated event leaves to the queries that follow it
\* either the index they found before it or the complete index of the file
\* it read, never a cleared or half-filled one.
C20_NoPartialIndex ==
  [][op'.name = "fileUpdated" =>
       index' \in {index, CompleteIndex(FileInfo(weatherFile'))}]_vars


(***************************************************************************)
(* The Rect object alone: the application holds one region and makes two   *)
(* calls on it: what it contains and overlaps, its parts, an inflate       *)
(***************************************************************************)
\* the longitudes and latitudes of the edges of the regions
EdgeLons == {-180, -170, 0, 170, 180}
EdgeLats == {-10, 10}
\* the regions: every pair of edge longitudes, the north edge not below the
\* south edge; points, regions over the date line and the whole range among
\* them, and the region that was never set
GeoRects ==
  {RectOf(w, ns[1], e, ns[2]) :
     w \in EdgeLons, e \in EdgeLons,
     ns \in {p \in EdgeLats \X EdgeLats : p[1] >= p[2]}}
  \cup {EmptyRect}
GeoPositions ==
  {ValidPos(lonx, laty) : lonx \in EdgeLons \cup {-175, 175}, laty \in EdgeLats \cup {-90, 0}}
  \cup {InvalidPos}
\* degrees to inflate by
InflateLons == {0, 10, 400}
InflateLats == {0, 10, 100}

InitGeo ==
  /\ fs = [path \in Paths |-> IF path = LivePath THEN NoFile
                            ELSE RegularFile(Contents[2], 1, TRUE)]
  /\ filename = NoPath
  /\ fileTimestamp = 0
  /\ lastFileSize = 0
  /\ delayTimer = -1
  /\ periodicCheckTimer = -1
  /\ watched = {}
  /\ weatherFile = NoPath
  /\ connected = FALSE
  /\ index = EmptyIndex
  /\ extLeft = 2
  /\ op = Ran("init", "")
  /\ hist = NewHist
  /\ rect \in GeoRects

geoFrame == <<fs, monitorVars, serviceVars, hist>>

\* a call on the object
GeoCall ==
  /\ extLeft > 0
  /\ extLeft' = extLeft - 1

Contains(pos) ==
  /\ GeoCall
  /\ op' = [name |-> "contains", res |-> contains(rect, pos), pos |-> pos]
  /\ UNCHANGED <<geoFrame, rect>>

\* rect.overlaps(other) and other.overlaps(rect)
Overlaps(other) ==
  /\ GeoCall
  /\ op' = [name |-> "overlaps", res |-> overlaps(rect, other),
            rev |-> overlaps(other, rect), other |-> other]
  /\ UNCHANGED <<geoFrame, rect>>

SplitAtAntiMeridian ==
  /\ GeoCall
  /\ op' = [name |-> "splitAtAntiMeridian", res |-> splitAtAntiMeridian(rect)]
  /\ UNCHANGED <<geoFrame, rect>>

Inflate(degreesLon, degreesLat) ==
  /\ GeoCall
  /\ rect' = inflate(rect, degreesLon, degreesLat)
  /\ op' = [name |-> "inflate", before |-> rect, degreesLon |-> degreesLon,
            degreesLat |-> degreesLat]
  /\ UNCHANGED geoFrame

GetCenter ==
  /\ GeoCall
  /\ op' = [name |-> "getCenter", res |-> getCenter(rect)]
  /\ UNCHANGED <<geoFrame, rect>>

NextGeo ==
  \/ \E pos \in GeoPositions : Contains(pos)
  \/ GetCenter
  \/ \E other \in GeoRects : Overlaps(other)
  \/ SplitAtAntiMeridian
  \/ \E degreesLon \in InflateLons, degreesLat \in InflateLats :
       Inflate(degreesLon, degreesLat)

SpecGeo == InitGeo /\ [][NextGeo]_vars

(***************************************************************************)
(* Rect                                                                    *)
(***************************************************************************)
Max(a, b) == IF a > b THEN a ELSE b

\* the closed longitude intervals of a region: west..180 and -180..east when
\* its east edge is west of its west edge, west..east otherwise
LonParts(r) ==
  IF getEast(r) < getWest(r)
  THEN {<<getWest(r), 180>>, <<-180, getEast(r)>>}
  ELSE {<<getWest(r), getEast(r)>>}

\* pos is a point of the region r
InRegion(r, pos) ==
  /\ isValid(r)
  /\ pos.valid
  /\ getSouth(r) <= pos.laty /\ pos.laty <= getNorth(r)
  /\ \E part \in LonParts(r) : part[1] <= pos.lonx /\ pos.lonx <= part[2]

\* C21: contains(region, pos) is true exactly when pos is a valid position
\* inside one of the closed sub-rectangles of the valid region; a region from
\* 170 east over the date line to 170 west has the longitudes 175 and -175
\* and not the longitude 0.
C21_ContainsSplitRegion ==
  op.name = "contains" =>
     /\ op.res = InRegion(rect, op.pos)
     /\ ( /\ isValid(rect) /\ getWest(rect) = 170 /\ getEast(rect) = -170
          /\ op.pos.valid
          /\ getSouth(rect) <= op.pos.laty /\ op.pos.laty <= getNorth(rect) )
        => /\ op.pos.lonx \in {175, -175} => op.res
           /\ op.pos.lonx = 0 => ~op.res

\* longitude -175 is found in the region from 170 east to 170 west
C21_Witness ==
  /\ op.name = "contains"
  /\ getWest(rect) = 170 /\ getEast(rect) = -170
  /\ op.pos.valid /\ op.pos.lonx = -175
  /\ op.res

\* two closed intervals have a point in common
Meet(lo, hi, lo2, hi2) == Max(lo, lo2) <= Min(hi, hi2)

\* the regions a and b have a point in common
SharePoint(a, b) ==
  /\ Meet(getSouth(a), getNorth(a), getSouth(b), getNorth(b))
  /\ \E pa \in LonParts(a), pb \in LonParts(b) : Meet(pa[1], pa[2], pb[1], pb[2])

BothValid == op.name = "overlaps" /\ isValid(rect) /\ isValid(op.other)

\* C22, as stated: two regions that both cross the date line always overlap.
C22_BothCrossAlwaysOverlap ==
  (BothValid /\ getEast(rect) < getWest(rect) /\ getEast(op.other) < getWest(op.other))
     => op.res

\* C22, amended: for two valid regions overlaps is true exactly when they
\* have a point in common, whether none, one or both of them cross the date
\* line; two regions that both cross it overlap exactly when their latitudes
\* do.
C22_OverlapsIffSharePoint ==
  BothValid =>
     /\ op.res = SharePoint(rect, op.other)
     /\ (getEast(rect) < getWest(rect) /\ getEast(op.other) < getWest(op.other))
        => op.res = Meet(getSouth(rect), getNorth(rect),
                         getSouth(op.other), getNorth(op.other))

\* a region over the date line overlaps one that lies west of it only
C22_Witness ==
  /\ BothValid
  /\ getEast(rect) < getWest(rect)
  /\ getWest(op.other) <= getEast(op.other)
  /\ getEast(op.other) < getWest(rect)
  /\ ~isPoint(op.other)
  /\ op.res

\* C23: overlaps(a, b) = overlaps(b, a) for every pair of regions, regions
\* that are not valid, points and regions over the date line among them.
C23_OverlapsSymmetric ==
  op.name = "overlaps" => op.res = op.rev

\* a region that does not cross the date line against one that does
C23_Witness ==
  /\ BothValid
  /\ getWest(rect) <= getEast(rect)
  /\ getEast(op.other) < getWest(op.other)
  /\ op.res /\ op.rev

\* C24: inflate of a valid region by degrees that are not negative moves west
\* to max(west - dLon, -180), east to min(east + dLon, 180), north to
\* min(north + dLat, 90) and south to max(south - dLat, -90), every edge in
\* its range; a region that is not valid stays as it is.
C24_InflateClamps ==
  op.name = "inflate" =>
     IF isValid(op.before)
     THEN /\ isValid(rect)
          /\ getWest(rect) = Max(getWest(op.before) - op.degreesLon, -180)
          /\ getEast(rect) = Min(getEast(op.before) + op.degreesLon, 180)
          /\ getNorth(rect) = Min(getNorth(op.before) + op.degreesLat, 90)
          /\ getSouth(rect) = Max(getSouth(op.before) - op.degreesLat, -90)
          /\ -180 <= getWest(rect) /\ getWest(rect) <= 180
          /\ -180 <= getEast(rect) /\ getEast(rect) <= 180
          /\ -90 <= getNorth(rect) /\ getNorth(rect) <= 90
          /\ -90 <= getSouth(rect) /\ getSouth(rect) <= 90
     ELSE rect = op.before

\* the west edge stopped at -180 while the north edge moved by dLat
C24_Witness ==
  /\ op.name = "inflate"
  /\ isValid(op.before)
  /\ getWest(op.before) - op.degreesLon < -180
  /\ getWest(rect) = -180
  /\ op.degreesLat > 0
  /\ getNorth(rect) = getNorth(op.before) + op.degreesLat

Split == op.name = "splitAtAntiMeridian" /\ isValid(rect)

\* the parts of a region that is split: west..180 and -180..east
TwoParts(r) ==
  <<RectOf(getWest(r), getNorth(r), 180, getSouth(r)),
    RectOf(-180, getNorth(r), getEast(r), getSouth(r))>>

\* C25, as stated: one region, the region itself, when it does not cross the
\* date line, the two parts when it does, and no part crosses the date line.
C25_SplitNonCrossing ==
  Split =>
     /\ op.res = IF crossesAntiMeridian(rect) THEN TwoParts(rect) ELSE <<rect>>
     /\ \A i \in DOMAIN op.res : ~crossesAntiMeridian(op.res[i])

\* C25, amended: the region itself when its east edge is not west of its west
\* edge and it is not the whole range -180..180, the two parts otherwise; no
\* part has its east edge west of its west edge; the parts of the whole range
\* are the whole range twice.
C25_SplitParts ==
  Split =>
     LET whole == getWest(rect) = -180 /\ getEast(rect) = 180
     IN /\ op.res = IF getEast(rect) < getWest(rect) \/ whole
                    THEN TwoParts(rect) ELSE <<rect>>
        /\ \A i \in DOMAIN op.res : getWest(op.res[i]) <= getEast(op.res[i])
        /\ whole => op.res = <<rect, rect>>
        /\ \A i \in DOMAIN op.res : crossesAntiMeridian(op.res[i]) => whole

\* the whole range was split
C25_Witness ==
  /\ Split
  /\ getWest(rect) = -180 /\ getEast(rect) = 180
  /\ Len(op.res) = 2

(***************************************************************************)
(* Lines of the weather file                                               *)
(***************************************************************************)
\* C26, as stated: every line that is not blank, is no date line and starts
\* with a token of 2 to 5 upper case letters or digits is an observation of
\* that identifier, whatever its length: an identifier with a position that
\* has such a line has an entry after the load, the text of one of its lines.
C26_EveryIdentLineTaken ==
  Loaded =>
    \A i \in 1..Len(Lines) :
      LET ident == FirstToken(Trimmed(Lines[i]))
      IN FormatObservation(i, ident) =>
           /\ IndexContains(index, ident)
           /\ \E k \in 1..Len(Lines) :
                /\ FormatObservation(k, ident)
                /\ IndexValue(index, ident).metar = Trimmed(Lines[k])

\* C26, amended: every line that has at least four characters after
\* trimming, is no date line and has an identifier before its first blank is
\* an observation of that identifier, identifier and trimmed line stored as
\* they are; a shorter line and a line with a tab after the identifier are
\* no observations: every entry is such a line of its identifier, and an
\* identifier with a position that has such a line has an entry.
C26_LongIdentLineTaken ==
  Loaded =>
    /\ \A i \in 1..Len(Lines) :
         LET ident == FirstSection(Trimmed(Lines[i]))
         IN ReaderObservation(i, ident) => IndexContains(index, ident)
    /\ \A key \in DOMAIN index :
         /\ IndexValue(index, key).ident = key
         /\ \E k \in 1..Len(Lines) :
              /\ ReaderObservation(k, key)
              /\ IndexValue(index, key).metar = Trimmed(Lines[k])

\* the file has the line "KA" and a line of KHYI: KHYI is loaded, KA is not
C26_Witness ==
  /\ Loaded
  /\ \E i \in 1..Len(Lines) : Lines[i] = ShortKA
  /\ IndexContains(index, <<"K","H","Y","I">>)
  /\ ~IndexContains(index, <<"K","A">>)

\* line i is malformed for the reader: four characters or more, no date
\* line, no identifier before its first blank
MalformedLine(i) ==
  LET line == Trimmed(Lines[i])
  IN /\ Len(line) >= 4
     /\ ~DateMatch(line)
     /\ ~IdentMatch(FirstSection(line))

RECURSIVE Without(_, _)
\* the lines without those of the set skip of line numbers, in their order
Without(lines, skip) ==
  IF lines = <<>> THEN <<>>
  ELSE LET rest == Without(SubSeq(lines, 1, Len(lines) - 1), skip)
       IN IF Len(lines) \in skip THEN rest ELSE Append(rest, lines[Len(lines)])

\* C27, as stated: the load goes on after a malformed line and builds the
\* index it builds without that line, and the line numbers logged are the
\* places of the malformed lines in the file.
C27_MalformedLoggedAtItsLine ==
  Loaded =>
    LET bad == {i \in 1..Len(Lines) : MalformedLine(i)}
    IN /\ index = ReadLines([index |-> EmptyIndex, lastTimestamp |-> UnsetTime,
                             lineNum |-> 1, warned |-> <<>>],
                            Without(Lines, bad)).index
       /\ Len(op.warned) = Cardinality(bad)
       /\ {op.warned[k] : k \in DOMAIN op.warned} = bad

(***************************************************************************)
(* The check and the timeout of the delay timer                            *)
(***************************************************************************)
Check == op.name = "check"

C29_CheckWithoutFile ==
  [][(Check' /\ ~FileUsable(Watched)) =>
       /\ op'.res = "nodata"
       /\ periodicCheckTimer' = CheckMs
       /\ delayTimer' = delayTimer
       /\ fileTimestamp' = fileTimestamp
       /\ lastFileSize' = lastFileSize
       /\ hist'.nFileUpdated = hist.nFileUpdated]_vars

\* a file that was recorded is found too small
C29_Witness ==
  /\ Check /\ op.res = "nodata"
  /\ Watched.kind = "file"
  /\ fileTimestamp > 0
  /\ periodicCheckTimer = CheckMs

\* C30: the timeout of the delay timer emits one fileUpdated with the path
\* that is set and starts the periodic timer; the delay timer is stopped then,
\* and it is started only by a check that finds a change.
C30_DebounceThenPoll ==
  [][/\ op'.name = "fileUpdated" =>
          /\ delayTimer = 0
          /\ hist'.nFileUpdated = hist.nFileUpdated + 1
          /\ op'.path = filename /\ filename # NoPath /\ filename' = filename
          /\ periodicCheckTimer' = CheckMs
          /\ delayTimer' = -1
     /\ hist'.nFileUpdated # hist.nFileUpdated =>
          op'.name \in {"fileUpdated", "start"}
     /\ (delayTimer = -1 /\ delayTimer' # -1) =>
          Check' /\ op'.res = "changed"]_vars

\* the second event of a monitor
C30_Witness ==
  /\ op.name = "fileUpdated"
  /\ hist.nFileUpdated = 2
  /\ delayTimer = -1
  /\ periodicCheckTimer = CheckMs

(***************************************************************************)
(* The two timers of the monitor                                           *)
(***************************************************************************)
BothArmed == delayTimer >= 0 /\ periodicCheckTimer >= 0

\* C31, as stated: the delay timer and the periodic timer are never armed at
\* the same time.
C31_TimersExclusive == ~BothArmed

\* C31, amended: a monitor without a path has no timer armed; a check that
\* finds a change leaves the delay timer alone armed, a fileUpdated the
\* periodic timer alone; both timers get armed together by nothing but a
\* check that finds no change or no file while the delay timer is running.
C31_TimersOfTheMonitor ==
  /\ [](/\ ~Running => (delayTimer = -1 /\ periodicCheckTimer = -1)
        /\ Detected => (delayTimer = DelayMs /\ periodicCheckTimer = -1)
        /\ op.name = "fileUpdated" => (delayTimer = -1 /\ periodicCheckTimer = CheckMs)
        /\ op.name = "start" => (delayTimer = -1 /\ periodicCheckTimer = CheckMs))
  /\ [][(~BothArmed /\ BothArmed') =>
          /\ Check'
          /\ op'.res \in {"unchanged", "nodata"}
          /\ delayTimer >= 0
          /\ delayTimer' = delayTimer
          /\ periodicCheckTimer' = CheckMs]_vars

\* a check found no change while the delay timer was running
C31_Witness ==
  /\ Check /\ op.res = "unchanged"
  /\ delayTimer > 0
  /\ periodicCheckTimer = CheckMs

\* C32: while the monitor has a path, after every handler the delay timer or
\* the periodic timer is armed.
C32_SomeTimerArmed ==
  Running => (delayTimer >= 0 \/ periodicCheckTimer >= 0)

\* the file is gone and the delay timer has fired: the periodic timer goes on
C32_Witness ==
  /\ Running
  /\ hist.sawGone
  /\ hist.nFileUpdated >= 1
  /\ Watched.kind = "absent"
  /\ delayTimer = -1
  /\ periodicCheckTimer >= 0

\* C33, as stated: no fileUpdated is emitted while the last check found no
\* file or a file not above the minimum size; here for the check that ran
\* just before: the handler after it is not the timeout of the delay timer.
C33_NoEventAfterFileGone ==
  [][(Check /\ op.res = "nodata") => op'.name # "fileUpdated"]_vars

\* C34, as stated: the first check after a start on another path that finds
\* a regular file above the minimum size takes it for changed and starts the
\* delay timer, whatever was recorded for the path before.
C34_FirstCheckAfterRestart ==
  [][(Check' /\ ~hist.checked /\ hist.moved /\ FileUsable(Watched)) =>
       (op'.res = "changed" /\ delayTimer' = DelayMs)]_vars

\* C35: of two lines the reader takes as observations of one identifier, the
\* only ones in the file, the first is kept only if its timestamp is later
\* than that of the second; with equal timestamps, both unset included, the
\* entry holds the line that comes later in the file.
C35_EqualTimestampsLaterLine ==
  Loaded =>
    LET header == [k \in 1..Len(Lines) |-> HeaderOf(k)]
        ident == [k \in 1..Len(Lines) |-> FirstSection(Trimmed(Lines[k]))]
        taken == {k \in 1..Len(Lines) : ReaderObservation(k, ident[k])}
    IN \A i, j \in taken :
         (/\ i < j
          /\ ident[i] = ident[j]
          /\ \A k \in taken : ident[k] = ident[i] => k \in {i, j})
           => LET stored == IF TimeGreater(header[i], header[j]) THEN i ELSE j
              IN /\ IndexContains(index, ident[i])
                 /\ IndexValue(index, ident[i]).metar = Trimmed(Lines[stored])
                 /\ IndexValue(index, ident[i]).timestamp = header[stored]

\* two lines of KHYI without a date before them: the second one is stored
C35_Witness ==
  /\ Loaded
  /\ Lines = <<ObsKHYI, ObsKHYI2>>
  /\ IndexValue(index, <<"K","H","Y","I">>).metar = ObsKHYI2

(***************************************************************************)
(* Rect: inflate, center and points                                        *)
(***************************************************************************)
\* C36, as stated: every position of a valid region is a position of the
\* region after inflate.
C36_InflateKeepsPositions ==
  (op.name = "inflate" /\ isValid(op.before)) =>
     \A pos \in GeoPositions : contains(op.before, pos) => contains(rect, pos)

\* C37, as stated: the center of a valid region is a position of the region,
\* the center of a region that is not valid is the position that is not valid.
C37_CenterInRegion ==
  op.name = "getCenter" =>
     IF isValid(rect) THEN op.res.valid /\ contains(rect, op.res)
     ELSE op.res = InvalidPos

\* C38: for a valid region r and a valid position p, r.overlaps(Rect(p)) is
\* r.contains(p), also when r is a point or crosses the date line.
C38_ContainsIsOverlapsPoint ==
  (op.name = "overlaps" /\ isValid(rect) /\ isValid(op.other)
     /\ op.other = RectPoint(op.other.topLeft)) =>
       op.res = contains(rect, op.other.topLeft)

\* a region over the date line and a point of it on the meridian of 180 degrees
C38_Witness ==
  /\ op.name = "overlaps"
  /\ isValid(rect) /\ getEast(rect) < getWest(rect) /\ getWest(rect) < 180
  /\ isValid(op.other) /\ op.other = RectPoint(op.other.topLeft)
  /\ getLonX(op.other.topLeft) = 180
  /\ op.res

=============================================================================
